---- MODULE Spec2Model ----
(***************************************************************************)
(* Model of ruler_bkend.py: measure_object (contour detection, optional    *)
(* calibration against the leftmost contour, per-contour measurement) and  *)
(* main (display, then save).                                              *)
(*                                                                         *)
(* A contour is abstracted to the values the code reads from it:           *)
(*   x    = cv2.boundingRect(c)[0]          (sort key, line 44)            *)
(*   area = cv2.contourArea(c)              (noise filter, line 68)        *)
(*   w, h = cv2.minAreaRect(c)[1]           (rectangle sides, lines 79-80) *)
(* The annotated image is the sequence of drawing calls made on the copy   *)
(* of the input image (cv2.drawContours / cv2.putText).                    *)
(* Python floats are modelled as exact rationals <<num, den>>; the ".1f"   *)
(* format produces a number of tenths.                                     *)
(***************************************************************************)
EXTENDS Integers, Sequences, FiniteSets, TLC

VARIABLES pc, loadable, known_width, ref_object_width_mm, raw, contours, i,
          pixels_per_mm, ref_contour, output, result, exception, events

vars == <<pc, loadable, known_width, ref_object_width_mm, raw, contours, i,
          pixels_per_mm, ref_contour, output, result, exception, events>>

-----------------------------------------------------------------------------
(* Bounds and input domains *)

\* largest number of contours cv2.findContours returns in the model
MaxContours == 3

\* Python's None; an optional value v is <<v>>
None == <<>>
Some(v) == <<v>>

\* the noise threshold of line 68
AreaThreshold == 100

\* bounding-box x-offsets of the contours in the image
Xs == {5, 60, 120}

\* [area, w, h] of the shapes in the image: a wide and a tall rectangle, a
\* square exactly on the threshold, and a speck below it
Shapes == { [area |-> 800, w |-> 40, h |-> 20],
            [area |-> 800, w |-> 20, h |-> 40],
            [area |-> 100, w |-> 10, h |-> 10],
            [area |->  99, w |-> 11, h |->  9] }

ContourPool == { [x |-> px, area |-> s.area, w |-> s.w, h |-> s.h] : px \in Xs, s \in Shapes }

\* values argparse can hand over for --known_width and --ref_width_mm
\* (type=float, no default: absent is None; zero and negatives are accepted)
KnownWidths == {None, Some(-100), Some(0), Some(30), Some(100)}
RefWidths == {None, Some(0), Some(50)}

Range(s) == { s[k] : k \in 1..Len(s) }

\* the lists cv2.findContours can return: distinct contours, in any order
RawLists == { s \in UNION { [1..n -> ContourPool] : n \in 0..MaxContours } :
                \A a, b \in 1..Len(s) : a # b => s[a] # s[b] }

-----------------------------------------------------------------------------
(* Pure helpers *)

Abs(n) == IF n < 0 THEN -n ELSE n

RECURSIVE GCD(_, _)
GCD(a, b) == IF b = 0 THEN a ELSE GCD(b, a % b)

\* a / b for b # 0, as a fraction in lowest terms with a positive denominator
Div(a, b) ==
    LET g == GCD(Abs(a), Abs(b))
        s == IF b < 0 THEN -1 ELSE 1
    IN  <<(s * a) \div g, Abs(b) \div g>>

\* f"{q:.1f}" : the fraction q rounded to one decimal, as a number of tenths
\* (round-half-to-even on the exact value, away from the tie otherwise)
Fmt1(q) ==
    LET a == Abs(q[1]) * 10
        b == q[2]
        d == a \div b
        r == a % b
        m == IF 2 * r > b THEN d + 1
             ELSE IF 2 * r < b THEN d
             ELSE IF d % 2 = 0 THEN d ELSE d + 1
    IN  IF q[1] < 0 THEN -m ELSE m

\* line 42
HasContoursAlways(cs) == TRUE

HasContours(cs) == Len(cs) > 0

\* sorted(contours, key=lambda c: cv2.boundingRect(c)[0]) : stable, ascending
RECURSIVE InsertByX(_, _)
InsertByX(c, s) ==
    IF s = <<>> THEN <<c>>
    ELSE IF c.x < s[Len(s)].x
         THEN Append(InsertByX(c, SubSeq(s, 1, Len(s) - 1)), s[Len(s)])
         ELSE Append(s, c)

RECURSIVE InsertBeforeEqual(_, _)
InsertBeforeEqual(c, s) ==
    IF s = <<>> THEN <<c>>
    ELSE IF c.x <= s[Len(s)].x
         THEN Append(InsertBeforeEqual(c, SubSeq(s, 1, Len(s) - 1)), s[Len(s)])
         ELSE Append(s, c)

RECURSIVE SortUnstable(_)
SortUnstable(cs) ==
    IF cs = <<>> THEN <<>>
    ELSE InsertBeforeEqual(cs[Len(cs)], SortUnstable(SubSeq(cs, 1, Len(cs) - 1)))

NoSort(cs) == cs

RECURSIVE SortLeftToRight(_)
SortLeftToRight(cs) ==
    IF cs = <<>> THEN <<>>
    ELSE InsertByX(cs[Len(cs)], SortLeftToRight(SubSeq(cs, 1, Len(cs) - 1)))

\* line 47
Calibrating(kw, rw) == kw # None /\ rw # None

\* line 55, for ref_object_width_mm # 0
PixelsPerMmInverted(kw, rw) == Div(rw[1], kw[1])

PixelsPerMm(kw, rw) == Div(kw[1], rw[1])

\* line 68
IsNoise(c) == c.area < AreaThreshold

\* lines 79-84: width is the longer side
Width(c) == IF c.w < c.h THEN c.h ELSE c.w
Height(c) == IF c.w < c.h THEN c.w ELSE c.h

\* drawing calls
Box(c, color) ==
    [op |-> "drawContours", c |-> c, color |-> color, text |-> "", tenths |-> 0, unit |-> ""]
Text(c, color, text, tenths, unit) ==
    [op |-> "putText", c |-> c, color |-> color, text |-> text, tenths |-> tenths, unit |-> unit]

\* lines 92-93, for pixels_per_mm # 0
ToMm(px, ppm) == Div(px * ppm[2], ppm[1])

\* lines 90-109: the two labels of a measured contour
LabelsPxOnly(c, ppm) ==
    << Text(c, "blue", "Width", Fmt1(<<Width(c), 1>>), "px"),
       Text(c, "blue", "Height", Fmt1(<<Height(c), 1>>), "px") >>

Labels(c, ppm) ==
    IF ppm # None
    THEN << Text(c, "blue", "Width", Fmt1(ToMm(Width(c), ppm[1])), "mm"),
            Text(c, "blue", "Height", Fmt1(ToMm(Height(c), ppm[1])), "mm") >>
    ELSE << Text(c, "blue", "Width", Fmt1(<<Width(c), 1>>), "px"),
            Text(c, "blue", "Height", Fmt1(<<Height(c), 1>>), "px") >>

-----------------------------------------------------------------------------
(* State machine *)

Init ==
    /\ pc = "imread"
    /\ loadable \in BOOLEAN
    /\ known_width \in KnownWidths
    /\ ref_object_width_mm \in RefWidths
    /\ raw = <<>>
    /\ contours = <<>>
    /\ i = 1
    /\ pixels_per_mm = None
    /\ ref_contour = None
    /\ output = <<>>
    /\ result = None
    /\ exception = None
    /\ events = <<>>

\* lines 18-21: the image cannot be loaded
ImreadFails ==
    /\ pc = "imread"
    /\ ~loadable
    /\ events' = Append(events, "print_error")
    /\ result' = None
    /\ pc' = "main_result"
    /\ UNCHANGED <<loadable, known_width, ref_object_width_mm, raw, contours, i,
                   pixels_per_mm, ref_contour, output, exception>>

\* lines 18-19: the image is loaded
ImreadOk ==
    /\ pc = "imread"
    /\ loadable
    /\ pc' = "findContours"
    /\ UNCHANGED <<loadable, known_width, ref_object_width_mm, raw, contours, i,
                   pixels_per_mm, ref_contour, output, result, exception, events>>

\* lines 24-40: preprocessing, contour extraction, output = image.copy(),
\* pixels_per_mm = None
FindContours ==
    /\ pc = "findContours"
    /\ \E cs \in RawLists :
         /\ raw' = cs
         /\ contours' = cs
    /\ output' = <<>>
    /\ pixels_per_mm' = None
    /\ pc' = "len_check"
    /\ UNCHANGED <<loadable, known_width, ref_object_width_mm, i, ref_contour,
                   result, exception, events>>

\* lines 42-44
SortContours ==
    /\ pc = "len_check"
    /\ HasContours(contours)
    /\ contours' = SortLeftToRight(contours)
    /\ pc' = "calibrate"
    /\ UNCHANGED <<loadable, known_width, ref_object_width_mm, raw, i,
                   pixels_per_mm, ref_contour, output, result, exception, events>>

\* line 42, no contour found
NoContours ==
    /\ pc = "len_check"
    /\ ~HasContours(contours)
    /\ pc' = "return"
    /\ UNCHANGED <<loadable, known_width, ref_object_width_mm, raw, contours, i,
                   pixels_per_mm, ref_contour, output, result, exception, events>>

\* lines 47-63
Calibrate ==
    /\ pc = "calibrate"
    /\ Calibrating(known_width, ref_object_width_mm)
    /\ IF Len(contours) = 0
       THEN \* contours[0] on an empty list
            /\ exception' = Some("IndexError")
            /\ pc' = "raised"
            /\ UNCHANGED <<ref_contour, pixels_per_mm, output, contours>>
       ELSE IF ref_object_width_mm[1] = 0
       THEN \* line 55 divides by zero after the reference was picked
            /\ ref_contour' = Some(contours[1])
            /\ exception' = Some("ZeroDivisionError")
            /\ pc' = "raised"
            /\ UNCHANGED <<pixels_per_mm, output, contours>>
       ELSE /\ ref_contour' = Some(contours[1])
            /\ pixels_per_mm' = Some(PixelsPerMm(known_width, ref_object_width_mm))
            /\ output' = output \o << Box(contours[1], "green"),
                                      Text(contours[1], "green", "Reference Object", 0, "") >>
            /\ contours' = Tail(contours)
            /\ pc' = "loop"
            /\ UNCHANGED exception
    /\ UNCHANGED <<loadable, known_width, ref_object_width_mm, raw, i, result, events>>

\* line 47, calibration not requested
SkipCalibration ==
    /\ pc = "calibrate"
    /\ ~Calibrating(known_width, ref_object_width_mm)
    /\ pc' = "loop"
    /\ UNCHANGED <<loadable, known_width, ref_object_width_mm, raw, contours, i,
                   pixels_per_mm, ref_contour, output, result, exception, events>>

\* lines 66-69: one iteration that skips a small contour
SkipNoise ==
    /\ pc = "loop"
    /\ i <= Len(contours)
    /\ IsNoise(contours[i])
    /\ i' = i + 1
    /\ UNCHANGED <<pc, loadable, known_width, ref_object_width_mm, raw, contours,
                   pixels_per_mm, ref_contour, output, result, exception, events>>

\* lines 66-109: one iteration that measures a contour
MeasureContour ==
    /\ pc = "loop"
    /\ i <= Len(contours)
    /\ ~IsNoise(contours[i])
    /\ IF pixels_per_mm # None /\ pixels_per_mm[1][1] = 0
       THEN \* the rectangle is drawn (line 87), then line 92 divides by zero
            /\ output' = Append(output, Box(contours[i], "red"))
            /\ exception' = Some("ZeroDivisionError")
            /\ pc' = "raised"
            /\ UNCHANGED i
       ELSE /\ output' = Append(output, Box(contours[i], "red"))
                           \o Labels(contours[i], pixels_per_mm)
            /\ i' = i + 1
            /\ UNCHANGED <<pc, exception>>
    /\ UNCHANGED <<loadable, known_width, ref_object_width_mm, raw, contours,
                   pixels_per_mm, ref_contour, result, events>>

\* line 66: the loop is exhausted
LoopExit ==
    /\ pc = "loop"
    /\ i > Len(contours)
    /\ pc' = "return"
    /\ UNCHANGED <<loadable, known_width, ref_object_width_mm, raw, contours, i,
                   pixels_per_mm, ref_contour, output, result, exception, events>>

\* line 111
ReturnOutput ==
    /\ pc = "return"
    /\ result' = Some(output)
    /\ pc' = "main_result"
    /\ UNCHANGED <<loadable, known_width, ref_object_width_mm, raw, contours, i,
                   pixels_per_mm, ref_contour, output, exception, events>>

\* lines 126-128
Imshow ==
    /\ pc = "main_result"
    /\ result # None
    /\ events' = Append(events, "imshow")
    /\ pc' = "waitKey"
    /\ UNCHANGED <<loadable, known_width, ref_object_width_mm, raw, contours, i,
                   pixels_per_mm, ref_contour, output, result, exception>>

\* line 129
WaitKey ==
    /\ pc = "waitKey"
    /\ events' = Append(events, "waitKey")
    /\ pc' = "destroyAllWindows"
    /\ UNCHANGED <<loadable, known_width, ref_object_width_mm, raw, contours, i,
                   pixels_per_mm, ref_contour, output, result, exception>>

\* line 130
DestroyAllWindows ==
    /\ pc = "destroyAllWindows"
    /\ events' = Append(events, "destroyAllWindows")
    /\ pc' = "imwrite"
    /\ UNCHANGED <<loadable, known_width, ref_object_width_mm, raw, contours, i,
                   pixels_per_mm, ref_contour, output, result, exception>>

\* line 133
Imwrite ==
    /\ pc = "imwrite"
    /\ events' = Append(events, "imwrite")
    /\ pc' = "print_saved"
    /\ UNCHANGED <<loadable, known_width, ref_object_width_mm, raw, contours, i,
                   pixels_per_mm, ref_contour, output, result, exception>>

\* line 134
PrintSaved ==
    /\ pc = "print_saved"
    /\ events' = Append(events, "print_saved")
    /\ pc' = "done"
    /\ UNCHANGED <<loadable, known_width, ref_object_width_mm, raw, contours, i,
                   pixels_per_mm, ref_contour, output, result, exception>>

\* lines 135-136
ProcessingFailed ==
    /\ pc = "main_result"
    /\ result = None
    /\ events' = Append(events, "print_failed")
    /\ pc' = "done"
    /\ UNCHANGED <<loadable, known_width, ref_object_width_mm, raw, contours, i,
                   pixels_per_mm, ref_contour, output, result, exception>>

Next ==
    \/ ImreadFails
    \/ ImreadOk
    \/ FindContours
    \/ SortContours
    \/ NoContours
    \/ Calibrate
    \/ SkipCalibration
    \/ SkipNoise
    \/ MeasureContour
    \/ LoopExit
    \/ ReturnOutput
    \/ Imshow
    \/ WaitKey
    \/ DestroyAllWindows
    \/ Imwrite
    \/ PrintSaved
    \/ ProcessingFailed

Spec == Init /\ [][Next]_vars

-----------------------------------------------------------------------------
(* Vocabulary of the properties *)

BothSupplied == known_width # None /\ ref_object_width_mm # None

Terminated == pc \in {"done", "raised"}

\* line 47 has been passed
AfterCalibration == pc \notin {"imread", "findContours", "len_check", "calibrate"}

Idx == 1..Len(output)
RefTextIdx == { k \in Idx : output[k].text = "Reference Object" }
RefBoxIdx == { k \in Idx : output[k].op = "drawContours" /\ output[k].color = "green" }
RedBoxIdx == { k \in Idx : output[k].op = "drawContours" /\ output[k].color = "red" }
WidthIdx == { k \in Idx : output[k].text = "Width" }
HeightIdx == { k \in Idx : output[k].text = "Height" }
LabelIdx == WidthIdx \cup HeightIdx

\* the contours that received a measurement label
Measured == { output[k].c : k \in LabelIdx }

BigEnough(S) == { c \in S : c.area >= 100 }

DistinctX(s) == \A a, b \in 1..Len(s) : a # b => s[a].x # s[b].x

RawIdx(c) == CHOOSE k \in 1..Len(raw) : raw[k] = c

\* the contour of smallest x-offset, the earliest in the raw list among equals
FirstLeftmost(s) ==
    s[CHOOSE k \in 1..Len(s) :
        \A j \in 1..Len(s) : s[k].x < s[j].x \/ (s[k].x = s[j].x /\ k <= j)]

\* c comes before d in left-to-right order, raw order breaking ties
Before(c, d) == c.x < d.x \/ (c.x = d.x /\ RawIdx(c) < RawIdx(d))

-----------------------------------------------------------------------------
(* C1 *)

\* C1: no box and no label, measurement or reference, is ever drawn for a
\* contour whose area is below 100.
C1_NoAnnotationBelowThreshold ==
    \A k \in Idx : output[k].c.area >= 100

\* what the code does guarantee: the measurement loop never annotates a
\* contour below the threshold
C1_NoMeasurementBelowThreshold ==
    \A k \in RedBoxIdx \cup LabelIdx : output[k].c.area >= 100

-----------------------------------------------------------------------------
(* C2 *)

\* C2: measure_object returns None if and only if the image cannot be loaded;
\* whenever the image loads the call completes and returns the annotated
\* image, for every contour set and every calibration argument, 0 included.
C2_NoneIffLoadFails ==
    /\ pc # "raised"
    /\ pc \in {"main_result", "waitKey", "destroyAllWindows", "imwrite", "print_saved", "done"}
         => (result = None <=> ~loadable)

-----------------------------------------------------------------------------
(* C3 *)

\* C3: with both calibration parameters and several contours at pairwise
\* distinct x-offsets, the reference is the contour of smallest x-offset
\* whatever the order of the raw list, and the reference and the measured
\* set are determined by the set of contours alone.
C3_LeftmostIsReference ==
    (BothSupplied /\ Len(raw) >= 2 /\ DistinctX(raw)) =>
        LET left == CHOOSE c \in Range(raw) : \A d \in Range(raw) : c.x <= d.x
        IN  /\ AfterCalibration => ref_contour = Some(left)
            /\ \A k \in RefTextIdx \cup RefBoxIdx : output[k].c = left
            /\ Measured \subseteq BigEnough(Range(raw) \ {left})
            /\ pc = "done" => Measured = BigEnough(Range(raw) \ {left})

C3_Witness ==
    /\ pc = "done"
    /\ BothSupplied
    /\ Len(raw) = 3
    /\ DistinctX(raw)
    /\ raw[1].x > raw[2].x
    /\ raw[2].x > raw[3].x
    /\ ref_contour = Some(raw[3])
    /\ Cardinality(Measured) = 2

-----------------------------------------------------------------------------
(* C4 *)

\* C4: when both calibration arguments are supplied and at least one contour
\* exists, exactly one contour, the leftmost, is consumed as the reference:
\* it is drawn once as "Reference Object", it gets no Width/Height label, and
\* the measurement set of the run is exactly the other contours of area >= 100.
C4_ReferenceConsumed ==
    (Terminated /\ BothSupplied /\ raw # <<>>) =>
        LET left == FirstLeftmost(raw)
        IN  /\ Cardinality(RefTextIdx) = 1
            /\ Cardinality(RefBoxIdx) = 1
            /\ \A k \in RefTextIdx \cup RefBoxIdx : output[k].c = left
            /\ left \notin Measured
            /\ Measured = BigEnough(Range(raw) \ {left})

\* the same statement for the runs in which measure_object returns
C4_ReferenceConsumedOnReturn ==
    (pc = "done" /\ BothSupplied /\ raw # <<>>) =>
        LET left == FirstLeftmost(raw)
        IN  /\ Cardinality(RefTextIdx) = 1
            /\ Cardinality(RefBoxIdx) = 1
            /\ \A k \in RefTextIdx \cup RefBoxIdx : output[k].c = left
            /\ left \notin Measured
            /\ Measured = BigEnough(Range(raw) \ {left})

-----------------------------------------------------------------------------
(* C5 *)

\* C5: the ratio stays None unless both calibration arguments are supplied.
\* If one is absent no contour is taken as reference, every contour passing
\* the area filter is measured and every label is in pixels; if both are
\* supplied every measurement label is in millimetres. The labels of one
\* run never mix px and mm.
C5_UnitsFollowCalibration ==
    /\ ~BothSupplied =>
          /\ pixels_per_mm = None
          /\ ref_contour = None
          /\ RefTextIdx \cup RefBoxIdx = {}
          /\ exception = None
          /\ \A k \in LabelIdx : output[k].unit = "px"
          /\ (pc = "done" /\ loadable) => Measured = BigEnough(Range(raw))
    /\ BothSupplied => \A k \in LabelIdx : output[k].unit = "mm"
    /\ \A k, l \in LabelIdx : output[k].unit = output[l].unit

C5_Witness ==
    /\ pc = "done"
    /\ known_width = Some(100)
    /\ ref_object_width_mm = None
    /\ Len(raw) = 3
    /\ Cardinality(Measured) = 2
    /\ \E k \in LabelIdx : output[k].unit = "px" /\ output[k].c = FirstLeftmost(raw)

-----------------------------------------------------------------------------
(* C6 *)

\* C6: with calibration supplied the ratio is known_width / ref_object_width_mm
\* (100 and 50 give exactly 2), every reported millimetre dimension is the
\* pixel dimension divided by that ratio, shown with one decimal (40 px is
\* reported as 20.0mm), and one ratio serves every object of the run.
C6_RatioAndMillimetres ==
    /\ pixels_per_mm # None =>
          /\ BothSupplied
          /\ ref_object_width_mm[1] # 0
          /\ pixels_per_mm[1][2] > 0
          /\ pixels_per_mm[1][1] * ref_object_width_mm[1] = known_width[1] * pixels_per_mm[1][2]
          /\ (known_width = Some(100) /\ ref_object_width_mm = Some(50))
                => pixels_per_mm = Some(<<2, 1>>)
    /\ \A k \in LabelIdx : output[k].unit = "mm" =>
          LET c  == output[k].c
              px == IF k \in WidthIdx THEN (IF c.w >= c.h THEN c.w ELSE c.h)
                                      ELSE (IF c.w >= c.h THEN c.h ELSE c.w)
              t  == output[k].tenths
              n  == 10 * px * ref_object_width_mm[1]
              d  == known_width[1]
          IN  /\ d # 0
              \* t is the multiple of 0.1 nearest to px * ref / known
              /\ 2 * Abs(t * d - n) <= Abs(d)
              /\ (known_width = Some(100) /\ ref_object_width_mm = Some(50) /\ px = 40)
                    => t = 200

C6_Witness ==
    /\ pc = "done"
    /\ known_width = Some(100)
    /\ ref_object_width_mm = Some(50)
    /\ pixels_per_mm = Some(<<2, 1>>)
    /\ \E k \in WidthIdx : output[k].c.w = 40 /\ output[k].tenths = 200 /\ output[k].unit = "mm"
    /\ Cardinality(Measured) = 2

-----------------------------------------------------------------------------
(* C7 *)

\* C7: for every measured rectangle, in pixel mode and in millimetre mode,
\* the reported width is >= the reported height, and the pair reported is
\* the pair of sides of the fitted rectangle (possibly swapped).
C7_WidthAtLeastHeight ==
    \A k \in WidthIdx : \A l \in HeightIdx :
        output[k].c = output[l].c =>
            /\ output[k].tenths >= output[l].tenths
            /\ output[k].unit = "px" =>
                  \/ (output[k].tenths = 10 * output[k].c.w /\ output[l].tenths = 10 * output[k].c.h)
                  \/ (output[k].tenths = 10 * output[k].c.h /\ output[l].tenths = 10 * output[k].c.w)

\* the same statement for the runs whose ratio is not negative
C7_WidthAtLeastHeightPositive ==
    (pixels_per_mm = None \/ pixels_per_mm[1][1] >= 0) => C7_WidthAtLeastHeight

-----------------------------------------------------------------------------
(* C8 *)

ShownThenSaved == <<"imshow", "waitKey", "destroyAllWindows", "imwrite", "print_saved">>

\* C8: in main, a failed load prints an error, opens no window and writes no
\* file; otherwise the window is opened, a key is awaited, the window is
\* closed, the image is written and the confirmation printed, in this order.
\* The file is never written before the window has been closed.
C8_MainEventOrder ==
    /\ \A k \in 1..Len(events) : events[k] = "imwrite" =>
          \E j \in 1..(k - 1) : events[j] = "destroyAllWindows"
    /\ ~loadable => \A k \in 1..Len(events) : events[k] \notin {"imshow", "imwrite"}
    /\ (Terminated /\ ~loadable) => events = <<"print_error", "print_failed">>
    /\ (Terminated /\ loadable) => events = ShownThenSaved

\* the same statement for the runs in which measure_object returns
C8_MainEventOrderOnReturn ==
    /\ \A k \in 1..Len(events) : events[k] = "imwrite" =>
          \E j \in 1..(k - 1) : events[j] = "destroyAllWindows"
    /\ ~loadable => \A k \in 1..Len(events) : events[k] \notin {"imshow", "imwrite"}
    /\ (pc = "done" /\ ~loadable) => events = <<"print_error", "print_failed">>
    /\ (pc = "done" /\ loadable) => events = ShownThenSaved
    /\ loadable => \E n \in 0..Len(ShownThenSaved) : events = SubSeq(ShownThenSaved, 1, n)

-----------------------------------------------------------------------------
(* C9 *)

\* C9: when the image loads and no contour is found, measure_object returns
\* an unannotated copy of the image and reports no error, whatever the
\* calibration arguments; no calibration ratio is computed.
C9_NoContoursNoAnnotations ==
    (loadable /\ raw = <<>> /\ pc \notin {"imread", "findContours"}) =>
        /\ output = <<>>
        /\ pixels_per_mm = None
        /\ ref_contour = None
        /\ exception = None
        /\ pc # "raised"
        /\ \A k \in 1..Len(events) : events[k] \notin {"print_error", "print_failed"}
        /\ pc \in {"main_result", "waitKey", "destroyAllWindows", "imwrite", "print_saved", "done"}
              => result = Some(<<>>)

C9_Witness ==
    /\ pc = "done"
    /\ loadable
    /\ raw = <<>>
    /\ known_width = Some(100)
    /\ ref_object_width_mm = Some(0)
    /\ result = Some(<<>>)
    /\ events = ShownThenSaved

-----------------------------------------------------------------------------
(* C10 *)

\* C10: contours are processed left to right: the measured objects follow
\* each other by non-decreasing x-offset, the reference precedes every
\* measured object in that order, and contours of equal x-offset keep their
\* order of the raw list.
C10_LeftToRightOrder ==
    /\ pc \in {"calibrate", "loop"} =>
          \A a, b \in 1..Len(contours) : a < b => Before(contours[a], contours[b])
    /\ \A k, l \in RedBoxIdx : k < l => Before(output[k].c, output[l].c)
    /\ \A k, l \in WidthIdx : k < l => Before(output[k].c, output[l].c)
    /\ \A k \in RefBoxIdx : \A l \in RedBoxIdx \cup LabelIdx :
          k < l /\ Before(output[k].c, output[l].c)
    /\ (ref_contour # None /\ pc \in {"loop", "return"}) =>
          \A a \in 1..Len(contours) : Before(ref_contour[1], contours[a])

C10_Witness ==
    /\ pc = "done"
    /\ BothSupplied
    /\ Len(raw) = 3
    /\ raw[1].x = raw[3].x
    /\ raw[2].x < raw[1].x
    /\ Cardinality(Measured) = 2
    /\ \E k, l \in RedBoxIdx : k < l /\ output[k].c = raw[1] /\ output[l].c = raw[3]

====
